---- MODULE Spec2Model ----
(***************************************************************************)
(* Model of the Anilist activity-feed filter userscript                    *)
(* (src/src/activityFeedFilter.user.js, v1.8.1): the condition evaluation  *)
(* of ActivityHandler, the UI handler and the pagination loop of MainApp.  *)
(*                                                                         *)
(* JavaScript values that are not plain booleans are kept apart: a         *)
(* predicate of CONDITIONS_MAP yields one of the JS values "true",         *)
(* "false", "element" (a DOM element, truthy) or "null" (falsy).           *)
(* Strings are sequences of characters.                                    *)
(***************************************************************************)
EXTENDS Integers, Sequences, FiniteSets, TLC

VARIABLES
    config,            \* the script's config object (fixed after start-up)
    href,              \* window.location.href, as the feed it belongs to
    currentLoadCount,  \* ActivityHandler.currentLoadCount
    userPressed,       \* UIHandler.userPressed
    cancel,            \* UIHandler.cancel: "null", "block" or "none" (its display)
    loadMore,          \* UIHandler.loadMore: "null" or "button"
    listeners,         \* click listeners setLoadMore has put on the current button
    intervals,         \* intervals of simulateDomEvents that are not cleared
    pc,                \* "idle", or "observing" inside MainApp.observeMutations
    pending,           \* added nodes of the current mutation batch not yet handled
    node,              \* the activity node removeEntry handled last
    lastOp,            \* the handler step that ran last
    keptSinceClick,    \* history: entries kept since the user's click began the
                       \* load-more cycle while that cycle ran, -1 when no click
                       \* began the cycle or the user cancelled it
    sinceCancel        \* history: "cancelled" from a click on Cancel until the user
                       \* clicks Load More ("clicked") or a batch ends, "handled"
                       \* after the first batch that ended with no such click
                       \* between, "none" otherwise

vars == <<config, href, currentLoadCount, userPressed, cancel, loadMore,
          listeners, intervals, pc, pending, node, lastOp, keptSinceClick,
          sinceCancel>>

-----------------------------------------------------------------------------
(* Bounds of the model *)

\* the longest mutation batch, in added nodes
MaxBatch == 2
\* the most click listeners the model follows on one Load More button
MaxListeners == 2
\* the most live intervals the model follows
MaxIntervals == 3
\* the longest text of an entry in the string-matching runs
MaxTextLen == 2

-----------------------------------------------------------------------------
(* JavaScript values and array helpers *)

JsBool(b) == IF b THEN "true" ELSE "false"

Truthy(v) == v \in {"true", "element"}

\* the ! operator
JsNot(v) == JsBool(~Truthy(v))

\* Array.prototype.includes on an array of JS values or names
ArrIncludes(arr, v) == \E i \in DOMAIN arr : arr[i] = v

RECURSIVE Concat(_)
Concat(seqs) == IF seqs = <<>> THEN <<>> ELSE Head(seqs) \o Concat(Tail(seqs))

\* an array element that is a string: name or term
Bare(s) == [isArray |-> FALSE, items |-> <<s>>]
\* an array element that is itself an array of strings
Arr(ss) == [isArray |-> TRUE, items |-> ss]

\* an element of a group that is itself an array: the array [] or [s] of one
\* string s, written as the characters of s after the mark "["
Nested(s) == <<"[">> \o s

\* an element that is a number, written as its digits after the mark "#"
Number(s) == <<"#">> \o s

\* typeof element === 'string' on an element that is not an array
isString(v) == ~(Len(v) > 0 /\ v[1] = "#")

\* Array.isArray on an element of a group
isArray(v) == Len(v) > 0 /\ v[1] = "["

\* the string an element of a group becomes as the argument of includes
toString(v) == IF isArray(v) THEN Tail(v) ELSE v

\* Array.prototype.flat (one level) on an array of strings and arrays of strings
Flat(arr) == Concat([i \in DOMAIN arr |-> arr[i].items])

-----------------------------------------------------------------------------
(* Strings *)

Lower(c) == IF c = "A" THEN "a" ELSE IF c = "B" THEN "b" ELSE c

toLowerCase(s) == [i \in DOMAIN s |-> Lower(s[i])]

\* String.prototype.includes
StrIncludes(text, s) ==
    \E i \in 0..(Len(text) - Len(s)) : SubSeq(text, i + 1, i + Len(s)) = s

-----------------------------------------------------------------------------
(* ActivityHandler: the atomic predicates *)

selectors == [ACTIVITY |-> [TEXT |-> "activity-text", MESSAGE |-> "activity-message"]]

\* node?.querySelector('img')
shouldRemoveImage(n) == IF n.hasImg THEN "element" ELSE "null"

\* node?.querySelector('video') || node?.querySelector('span.youtube')
shouldRemoveVideo(n) == IF n.hasVideo \/ n.hasYoutube THEN "element" ELSE "null"

\* mutant of shouldRemoveText: the class alone decides
shouldRemoveText_classOnly(n) ==
    JsBool(n.class \in {selectors.ACTIVITY.TEXT, selectors.ACTIVITY.MESSAGE})

shouldRemoveText(n) ==
    JsBool(/\ n.class \in {selectors.ACTIVITY.TEXT, selectors.ACTIVITY.MESSAGE}
           /\ ~(Truthy(shouldRemoveImage(n)) \/ Truthy(shouldRemoveVideo(n))))

\* mutant of shouldRemoveUncommented: the like count is read
shouldRemoveUncommented_readsLikes(n) == JsBool(~n.hasLikeCount)

\* !node.querySelector('div.action.replies')?.querySelector('span.count')
shouldRemoveUncommented(n) == JsBool(~n.hasReplyCount)

\* !node.querySelector('div.action.likes')?.querySelector('span.count')
shouldRemoveUnliked(n) == JsBool(~n.hasLikeCount)

\* mutant of containsString: caseSensitive is not read, the comparison is exact
containsString_exact(cfg, nodeText, strings) == StrIncludes(nodeText, strings)

containsString(cfg, nodeText, strings) ==
    IF ~cfg.options.caseSensitive
    THEN StrIncludes(toLowerCase(nodeText), toLowerCase(strings))
    ELSE StrIncludes(nodeText, toString(strings))

\* strings.toLowerCase is not a function: the TypeError of containsString
containsStringThrows(cfg, strings) == ~cfg.options.caseSensitive /\ isArray(strings)

checkStrings(cfg, n, strings) ==
    IF strings.isArray
    THEN \A i \in DOMAIN strings.items : containsString(cfg, n.textContent, strings.items[i])
    ELSE containsString(cfg, n.textContent, strings.items[1])

\* checkStrings raises: every() reaches an element on which containsString raises
checkStringsThrows(cfg, n, strings) ==
    IF strings.isArray
    THEN \E i \in DOMAIN strings.items :
            /\ containsStringThrows(cfg, strings.items[i])
            /\ \A j \in 1..(i - 1) :
                    /\ ~containsStringThrows(cfg, strings.items[j])
                    /\ containsString(cfg, n.textContent, strings.items[j])
    ELSE containsStringThrows(cfg, strings.items[1])

\* shouldRemoveStrings raises: some() reaches a group on which checkStrings raises
shouldRemoveStringsThrows(cfg, n) ==
    LET containsStrings == cfg.remove.containsStrings
    IN  /\ Len(Flat(containsStrings)) # 0
        /\ \E i \in DOMAIN containsStrings :
                /\ checkStringsThrows(cfg, n, containsStrings[i])
                /\ \A j \in 1..(i - 1) :
                        /\ ~checkStringsThrows(cfg, n, containsStrings[j])
                        /\ ~checkStrings(cfg, n, containsStrings[j])

shouldRemoveStrings(cfg, n, reversed) ==
    LET containsStrings == cfg.remove.containsStrings
        some == \E i \in DOMAIN containsStrings : checkStrings(cfg, n, containsStrings[i])
    IN  IF Len(Flat(containsStrings)) = 0
        THEN "false"
        ELSE IF reversed THEN JsBool(~some) ELSE JsBool(some)

\* the keys of CONDITIONS_MAP, in insertion order
CONDITION_NAMES ==
    <<"uncommented", "unliked", "text", "images", "videos", "containsStrings">>

\* CONDITIONS_MAP.get(name)(node, reverse)
CONDITIONS_MAP(cfg, name, n, reverse) ==
    CASE name = "uncommented" ->
            IF reverse THEN JsNot(shouldRemoveUncommented(n)) ELSE shouldRemoveUncommented(n)
      [] name = "unliked" ->
            IF reverse THEN JsNot(shouldRemoveUnliked(n)) ELSE shouldRemoveUnliked(n)
      [] name = "text" ->
            IF reverse THEN JsNot(shouldRemoveText(n)) ELSE shouldRemoveText(n)
      [] name = "images" ->
            IF reverse THEN JsNot(shouldRemoveImage(n)) ELSE shouldRemoveImage(n)
      [] name = "videos" ->
            IF reverse THEN JsNot(shouldRemoveVideo(n)) ELSE shouldRemoveVideo(n)
      [] name = "containsStrings" -> shouldRemoveStrings(cfg, n, reverse)

\* CONDITIONS_MAP.get(name)(node, reverse) raises
conditionThrows(cfg, name, n) ==
    name = "containsStrings" /\ shouldRemoveStringsThrows(cfg, n)

-----------------------------------------------------------------------------
(* ActivityHandler.removeEntry: the decision *)

LINKED_TRUE == 1
LINKED_FALSE == 0
LINKED_NONE == -1

linkedConditionsFlat(cfg) == Flat(cfg.options.linkedConditions)

\* mutant of checkLinkedConditions: some() in both modes
checkLinkedConditions_some(cfg, n, conditionList) ==
    \E i \in DOMAIN conditionList :
        Truthy(CONDITIONS_MAP(cfg, conditionList[i], n, cfg.options.reverseConditions))

checkLinkedConditions(cfg, n, conditionList) ==
    LET reverseConditions == cfg.options.reverseConditions
    IN  IF reverseConditions
        THEN \E i \in DOMAIN conditionList :
                Truthy(CONDITIONS_MAP(cfg, conditionList[i], n, reverseConditions))
        ELSE \A i \in DOMAIN conditionList :
                Truthy(CONDITIONS_MAP(cfg, conditionList[i], n, reverseConditions))

\* checkLinkedConditions raises: some() goes on past a falsy predicate, every()
\* past a truthy one, up to a predicate that raises
checkLinkedConditionsThrows(cfg, n, conditionList) ==
    LET reverseConditions == cfg.options.reverseConditions
    IN  \E i \in DOMAIN conditionList :
            /\ conditionThrows(cfg, conditionList[i], n)
            /\ \A j \in 1..(i - 1) :
                    /\ ~conditionThrows(cfg, conditionList[j], n)
                    /\ Truthy(CONDITIONS_MAP(cfg, conditionList[j], n, reverseConditions))
                            <=> ~reverseConditions

\* mutant of linkedGroups: every element is a group of its own, a list of names too
linkedGroups_eachAlone(linkedConditions) ==
    [i \in DOMAIN linkedConditions |-> linkedConditions[i].items]

\* the const conditions of shouldRemoveByLinkedConditions: the groups
linkedGroups(linkedConditions) ==
    IF /\ \A i \in DOMAIN linkedConditions : ~linkedConditions[i].isArray
       /\ ~\E i \in DOMAIN linkedConditions : linkedConditions[i].isArray
    THEN <<Flat(linkedConditions)>>
    ELSE [i \in DOMAIN linkedConditions |-> linkedConditions[i].items]

\* mutant of shouldRemoveByLinkedConditions: no early return for a list without
\* names
shouldRemoveByLinkedConditions_noEmptyCheck(cfg, n) ==
    LET reverseConditions == cfg.options.reverseConditions
        conditions == linkedGroups(cfg.options.linkedConditions)
        checkResult == [i \in DOMAIN conditions |->
                            JsBool(checkLinkedConditions(cfg, n, conditions[i]))]
    IN  IF /\ ArrIncludes(checkResult, "true")
           /\ (~reverseConditions \/ ~ArrIncludes(checkResult, "false"))
        THEN LINKED_TRUE
        ELSE LINKED_FALSE

shouldRemoveByLinkedConditions(cfg, n) ==
    LET reverseConditions == cfg.options.reverseConditions
        conditions == linkedGroups(cfg.options.linkedConditions)
        checkResult == [i \in DOMAIN conditions |->
                            JsBool(checkLinkedConditions(cfg, n, conditions[i]))]
    IN  IF Len(linkedConditionsFlat(cfg)) = 0
        THEN LINKED_NONE
        ELSE IF /\ ArrIncludes(checkResult, "true")
                /\ (~reverseConditions \/ ~ArrIncludes(checkResult, "false"))
             THEN LINKED_TRUE
             ELSE LINKED_FALSE

\* shouldRemoveByLinkedConditions raises: map() calls checkLinkedConditions on
\* every group
shouldRemoveByLinkedConditionsThrows(cfg, n) ==
    LET conditions == linkedGroups(cfg.options.linkedConditions)
    IN  /\ Len(linkedConditionsFlat(cfg)) # 0
        /\ \E i \in DOMAIN conditions : checkLinkedConditionsThrows(cfg, n, conditions[i])

\* mutant of shouldSkip: a linked condition is evaluated on its own as well
shouldSkip_never(cfg, condition) == FALSE

shouldSkip(cfg, condition) == ArrIncludes(linkedConditionsFlat(cfg), condition)

\* remove[name] === true || remove[name].length > 0
enabledReversed(cfg, name) ==
    IF name = "containsStrings"
    THEN Len(cfg.remove.containsStrings) > 0
    ELSE cfg.remove[name] = TRUE

\* mutant of enabledTruthy: the remove flag is not read
enabledTruthy_always(cfg, name) == TRUE

\* the truthiness of remove[name]: an array, even an empty one, is truthy
enabledTruthy(cfg, name) ==
    IF name = "containsStrings" THEN TRUE ELSE cfg.remove[name]

shouldRemoveNode(cfg, n) ==
    LET reverseConditions == cfg.options.reverseConditions
        linkedResult == shouldRemoveByLinkedConditions(cfg, n)
        kept == SelectSeq(CONDITION_NAMES,
                    LAMBDA name : ~shouldSkip(cfg, name) /\ enabledReversed(cfg, name))
        checkedConditions ==
            [i \in DOMAIN kept |-> CONDITIONS_MAP(cfg, kept[i], n, reverseConditions)]
    IN  IF reverseConditions
        THEN /\ linkedResult # LINKED_FALSE
             /\ ~ArrIncludes(checkedConditions, "false")
             /\ (linkedResult = LINKED_TRUE \/ ArrIncludes(checkedConditions, "true"))
        ELSE \/ linkedResult = LINKED_TRUE
             \/ \E i \in DOMAIN CONDITION_NAMES :
                    /\ ~shouldSkip(cfg, CONDITION_NAMES[i])
                    /\ enabledTruthy(cfg, CONDITION_NAMES[i])
                    /\ Truthy(CONDITIONS_MAP(cfg, CONDITION_NAMES[i], n, reverseConditions))

\* shouldRemoveNode raises: in the linked conditions, or in a predicate the
\* reversed mode maps over, or in one the some() of the other mode reaches
shouldRemoveNodeThrows(cfg, n) ==
    LET reverseConditions == cfg.options.reverseConditions
        called(name) == ~shouldSkip(cfg, name) /\ enabledTruthy(cfg, name)
    IN  \/ shouldRemoveByLinkedConditionsThrows(cfg, n)
        \/ /\ ~shouldRemoveByLinkedConditionsThrows(cfg, n)
           /\ IF reverseConditions
              THEN \E i \in DOMAIN CONDITION_NAMES :
                      /\ ~shouldSkip(cfg, CONDITION_NAMES[i])
                      /\ enabledReversed(cfg, CONDITION_NAMES[i])
                      /\ conditionThrows(cfg, CONDITION_NAMES[i], n)
              ELSE /\ shouldRemoveByLinkedConditions(cfg, n) # LINKED_TRUE
                   /\ \E i \in DOMAIN CONDITION_NAMES :
                          /\ called(CONDITION_NAMES[i])
                          /\ conditionThrows(cfg, CONDITION_NAMES[i], n)
                          /\ \A j \in 1..(i - 1) :
                                called(CONDITION_NAMES[j]) =>
                                    /\ ~conditionThrows(cfg, CONDITION_NAMES[j], n)
                                    /\ ~Truthy(CONDITIONS_MAP(cfg, CONDITION_NAMES[j], n,
                                                              reverseConditions))

\* mutant of removeEntry: the counter is incremented for a removed entry too
removeEntry_alwaysCounts(n) ==
    /\ node' = [entry |-> n, attached |-> ~shouldRemoveNode(config, n)]
    /\ currentLoadCount' = currentLoadCount + 1

\* mutant of removeEntry: the decision reads the counter
removeEntry_countDependent(n) ==
    /\ node' = [entry |-> n,
                attached |-> ~(shouldRemoveNode(config, n) /\ currentLoadCount = 0)]
    /\ currentLoadCount' = IF shouldRemoveNode(config, n) /\ currentLoadCount = 0
                           THEN currentLoadCount
                           ELSE currentLoadCount + 1

\* shouldRemoveNode() ? node.remove() : this.currentLoadCount++, or the
\* TypeError of shouldRemoveNode() before either
removeEntry(n) ==
    IF shouldRemoveNodeThrows(config, n)
    THEN /\ node' = [entry |-> n, attached |-> TRUE]
         /\ UNCHANGED currentLoadCount
    ELSE /\ node' = [entry |-> n, attached |-> ~shouldRemoveNode(config, n)]
         /\ currentLoadCount' = IF shouldRemoveNode(config, n)
                                THEN currentLoadCount
                                ELSE currentLoadCount + 1

ActivityHandler_resetState == currentLoadCount' = 0

-----------------------------------------------------------------------------
(* UIHandler *)

\* showCancel: an existing button is displayed again, a missing one is created
showCancel == cancel' = "block"

\* hideCancel
hideCancel == cancel' = IF cancel # "null" THEN "none" ELSE cancel

\* the click listeners of the Load More button: each one sets userPressed, starts
\* one interval (simulateDomEvents) and shows the cancel button
loadMoreClicked ==
    /\ userPressed' = IF listeners > 0 THEN TRUE ELSE userPressed
    /\ intervals' = intervals + listeners
    /\ IF listeners > 0 THEN showCancel ELSE cancel' = cancel

\* setLoadMore(button): button is the node the handler holds already, or a new one
setLoadMore(sameNode) ==
    /\ loadMore' = "button"
    /\ listeners' = IF sameNode /\ loadMore = "button" THEN listeners + 1 ELSE 1

\* this.loadMore?.click() ?? null
clickLoadMore ==
    IF loadMore # "null"
    THEN loadMoreClicked
    ELSE UNCHANGED <<userPressed, intervals, cancel>>

\* mutant of UIHandler_resetState: the cancel button is left as it is
UIHandler_resetState_keepsCancel ==
    /\ userPressed' = FALSE
    /\ cancel' = cancel

UIHandler_resetState ==
    /\ userPressed' = FALSE
    /\ hideCancel

-----------------------------------------------------------------------------
(* MainApp *)

\* MainApp.urls
urls == [HOME |-> "https://anilist.co/home",
         PROFILE |-> "https://anilist.co/user/*/",
         SOCIAL |-> "https://anilist.co/*/social"]

\* the pages the browser can be on, and new RegExp(pattern).test(href) for each
Hrefs == {"https://anilist.co/home",
          "https://anilist.co/user/x/",
          "https://anilist.co/user/x/social",
          "https://anilist.co/anime/1/y/social",
          "https://anilist.co/search/anime"}

regexTest(pattern, url) ==
    CASE pattern = "HOME" -> url = "https://anilist.co/home"
      [] pattern = "PROFILE" -> url \in {"https://anilist.co/user/x/",
                                         "https://anilist.co/user/x/social"}
      [] pattern = "SOCIAL" -> url \in {"https://anilist.co/user/x/social",
                                        "https://anilist.co/anime/1/y/social"}

\* this.config.runOn[pattern]: undefined (falsy) for a key runOn does not have
runOnValue(cfg, pattern) ==
    IF pattern \in DOMAIN cfg.runOn THEN cfg.runOn[pattern] ELSE FALSE

\* mutant of isAllowedUrl: every page is allowed
isAllowedUrl_always(cfg, url) == TRUE

isAllowedUrl(cfg, url) ==
    LET allowedPatterns == {pattern \in DOMAIN urls : runOnValue(cfg, pattern)}
    IN  \E pattern \in allowedPatterns : regexTest(pattern, url)

loadMoreOrReset_noCounterReset ==
    IF currentLoadCount < config.options.targetLoadCount /\ userPressed
    THEN /\ clickLoadMore
         /\ UNCHANGED currentLoadCount
         /\ lastOp' = "clickLoadMore"
    ELSE /\ UNCHANGED currentLoadCount
         /\ UIHandler_resetState
         /\ UNCHANGED intervals
         /\ lastOp' = "resetState"

\* mutant of loadMoreOrReset: userPressed is not read
loadMoreOrReset_ignoresUserPressed ==
    IF currentLoadCount < config.options.targetLoadCount
    THEN /\ clickLoadMore
         /\ UNCHANGED currentLoadCount
         /\ lastOp' = "clickLoadMore"
    ELSE /\ ActivityHandler_resetState
         /\ UIHandler_resetState
         /\ UNCHANGED intervals
         /\ lastOp' = "resetState"

loadMoreOrReset ==
    IF currentLoadCount < config.options.targetLoadCount /\ userPressed
    THEN /\ clickLoadMore
         /\ UNCHANGED currentLoadCount
         /\ lastOp' = "clickLoadMore"
    ELSE /\ ActivityHandler_resetState
         /\ UIHandler_resetState
         /\ UNCHANGED intervals
         /\ lastOp' = "resetState"

-----------------------------------------------------------------------------
(* The configurations and entries the model draws from *)

\* config.runOn as shipped
shippedRunOn == [home |-> TRUE, social |-> TRUE, profile |-> FALSE]

\* the config object of the script, field by field
Config(images, videos, text, uncommented, unliked, containsStrings, targetLoadCount, caseSensitive, reverseConditions, linkedConditions, runOn) ==
    [remove |-> [images |-> images, videos |-> videos, text |-> text,
                 uncommented |-> uncommented, unliked |-> unliked,
                 containsStrings |-> containsStrings],
     options |-> [targetLoadCount |-> targetLoadCount, caseSensitive |-> caseSensitive,
                  reverseConditions |-> reverseConditions,
                  linkedConditions |-> linkedConditions],
     runOn |-> runOn]

\* the config as shipped
shippedConfig ==
    Config(FALSE, FALSE, FALSE, FALSE, FALSE, <<>>, 2, FALSE, FALSE, <<>>, shippedRunOn)

\* values of options.linkedConditions: flat lists, groups, mixed lists, empty groups
LinkedOptions ==
    { <<>>,
      <<Arr(<<>>)>>,
      <<Bare("images")>>,
      <<Bare("images"), Bare("videos")>>,
      <<Arr(<<"images", "videos">>)>>,
      <<Arr(<<"images">>), Arr(<<"videos">>)>>,
      <<Bare("text"), Bare("uncommented")>>,
      <<Bare("uncommented"), Arr(<<"images", "text">>)>>,
      <<Arr(<<>>), Arr(<<"unliked">>)>>,
      <<Bare("containsStrings")>>,
      <<Arr(<<"containsStrings", "unliked">>)>>,
      <<Arr(<<"containsStrings">>), Bare("videos")>> }

\* values of remove.containsStrings in the runs about the combination logic
LogicStrings == { <<>>, <<Arr(<<>>)>>, <<Bare(<<"a">>)>> }

LogicConfigs ==
    { Config(i, v, t, u, k, cs, 2, FALSE, r, l, shippedRunOn) :
        i \in BOOLEAN, v \in BOOLEAN, t \in BOOLEAN, u \in BOOLEAN, k \in BOOLEAN,
        cs \in LogicStrings, r \in BOOLEAN, l \in LinkedOptions }

Chars == {"a", "A", "b"}

\* the strings over Chars of at most n characters
StringsUpTo(n) == UNION { [1..m -> Chars] : m \in 0..n }

\* the terms of remove.containsStrings in the runs about string matching
Terms == { <<>>, <<"a">>, <<"B">>, <<"A", "b">> }

TermGroups ==
    { Bare(t) : t \in Terms }
    \cup { Arr(<<>>), Arr(<<<<"a">>>>), Arr(<<<<"a">>, <<"B">>>>),
           Arr(<<<<"A", "b">>, <<"a">>>>), Arr(<<<<>>, <<"B">>>>) }

StringOptions ==
    { <<>> } \cup { <<g>> : g \in TermGroups } \cup { <<g, h>> : g \in TermGroups, h \in TermGroups }

StringConfigs ==
    { Config(FALSE, FALSE, FALSE, FALSE, FALSE, cs, 2, c, FALSE, <<>>, shippedRunOn) :
        cs \in StringOptions, c \in BOOLEAN }

Classes == {"activity-text", "activity-message", "activity-anime_list"}

\* an activity node, by what the script's queries find in it
Entry(hasReplyCount, hasLikeCount, hasImg, hasVideo, hasYoutube, class, textContent) ==
    [hasReplyCount |-> hasReplyCount, hasLikeCount |-> hasLikeCount, hasImg |-> hasImg,
     hasVideo |-> hasVideo, hasYoutube |-> hasYoutube, class |-> class,
     textContent |-> textContent]

StructEntries ==
    { Entry(r, l, i, v, y, c, t) :
        r \in BOOLEAN, l \in BOOLEAN, i \in BOOLEAN, v \in BOOLEAN, y \in BOOLEAN,
        c \in Classes, t \in { <<"a">>, <<"b">> } }

TextEntries ==
    { Entry(TRUE, TRUE, FALSE, FALSE, FALSE, "activity-text", t) : t \in StringsUpTo(MaxTextLen) }

EvalEntries == StructEntries \cup TextEntries

EvalConfigs == LogicConfigs \cup StringConfigs

\* no activity node handled yet
NoNode == [entry |-> Entry(TRUE, TRUE, FALSE, FALSE, FALSE, "activity-anime_list", <<>>),
           attached |-> TRUE]

-----------------------------------------------------------------------------
(* The state after main(): new UIHandler(), new ActivityHandler(config) *)

Constructed ==
    /\ currentLoadCount = 0
    /\ userPressed = TRUE
    /\ cancel = "null"
    /\ loadMore = "null"
    /\ listeners = 0
    /\ intervals = 0
    /\ pc = "idle"
    /\ pending = 0
    /\ node = NoNode
    /\ lastOp = "init"
    /\ keptSinceClick = -1
    /\ sinceCancel = "none"
    /\ href = "https://anilist.co/home"

-----------------------------------------------------------------------------
(* removeEntry called once on the handler as constructed, for the claims     *)
(* about the decision as a function of the entry and the config              *)

\* the history variable at a call of removeEntry: a kept entry counts for the
\* running cycle a click began
noteKept ==
    keptSinceClick' = IF /\ keptSinceClick >= 0 /\ userPressed
                         /\ lastOp' = "removeEntry" /\ node'.attached
                      THEN keptSinceClick + 1
                      ELSE keptSinceClick

EvalInit ==
    /\ config \in EvalConfigs
    /\ Constructed

RemoveEntry ==
    \E n \in EvalEntries :
        /\ lastOp = "init"
        /\ removeEntry(n)
        /\ lastOp' = IF shouldRemoveNodeThrows(config, n) THEN "TypeError" ELSE "removeEntry"
        /\ noteKept
        /\ UNCHANGED <<config, href, userPressed, cancel, loadMore, listeners,
                       intervals, pc, pending, sinceCancel>>

EvalNext == RemoveEntry

EvalSpec == EvalInit /\ [][EvalNext]_vars

-----------------------------------------------------------------------------
(* ConfigValidator *)

validatePositiveNonZeroInteger(cfg) ==
    cfg.options.targetLoadCount > 0 /\ cfg.options.targetLoadCount \in Int

allowedConditions ==
    <<"uncommented", "unliked", "text", "images", "videos", "containsStrings">>

validateLinkedConditions(cfg) ==
    LET linkedConditions == Flat(cfg.options.linkedConditions)
    IN  ~\E i \in DOMAIN linkedConditions :
            ~ArrIncludes(allowedConditions, linkedConditions[i])

\* on an element of a group: an array is accepted when its own elements are,
\* anything else when it is a string
validateElement(v) == IF isArray(v) THEN isString(Tail(v)) ELSE isString(v)

\* on remove.containsStrings: the recursion accepts arrays nested at any depth
validateArrayContents(arr) ==
    \A i \in DOMAIN arr : \A k \in DOMAIN arr[i].items : validateElement(arr[i].items[k])

\* remove.containsStrings and options.linkedConditions are arrays in every config
\* of the model, and the names of linkedConditions are strings
validateStringArrays(cfg) == validateArrayContents(cfg.remove.containsStrings)

validateBooleans(cfg) ==
    /\ \A name \in {"uncommented", "unliked", "text", "images", "videos"} :
            cfg.remove[name] \in BOOLEAN
    /\ cfg.options.caseSensitive \in BOOLEAN
    /\ cfg.options.reverseConditions \in BOOLEAN
    /\ \A page \in {"home", "social", "profile"} : cfg.runOn[page] \in BOOLEAN

\* this.errors after the four validations, by the key each message starts with
validateErrors(cfg) ==
    (IF validatePositiveNonZeroInteger(cfg) THEN {} ELSE {"options.targetLoadCount"})
    \cup (IF validateLinkedConditions(cfg) THEN {} ELSE {"options.linkedConditions"})
    \cup (IF validateStringArrays(cfg) THEN {} ELSE {"remove.containsStrings"})
    \cup (IF validateBooleans(cfg) THEN {} ELSE {"booleans"})

\* validate() returns without throwing
validate(cfg) == validateErrors(cfg) = {}

-----------------------------------------------------------------------------
(* removeEntry called once under the configs validate() accepts, among them  *)
(* remove.containsStrings with arrays nested inside a group                   *)

NestedStrings ==
    { <<>>,
      <<Bare(<<"a">>)>>,
      <<Arr(<<Nested(<<"a">>)>>)>>,
      <<Arr(<<Nested(<<>>)>>)>>,
      <<Arr(<<<<"b">>, Nested(<<"a">>)>>)>>,
      <<Bare(<<"b">>), Arr(<<Nested(<<"a">>)>>)>>,
      <<Arr(<<Number(<<>>)>>)>> }

NestedLinked ==
    { <<>>, <<Bare("containsStrings")>>, <<Arr(<<"images", "containsStrings">>)>>,
      <<Bare("image")>> }

NestedConfigs ==
    { Config(i, FALSE, FALSE, FALSE, FALSE, cs, t, c, r, l, shippedRunOn) :
        i \in BOOLEAN, cs \in NestedStrings, t \in {0, 2}, c \in BOOLEAN, r \in BOOLEAN,
        l \in NestedLinked }

NestedInit ==
    /\ config \in { cfg \in NestedConfigs : validate(cfg) }
    /\ Constructed

NestedSpec == NestedInit /\ [][EvalNext]_vars

-----------------------------------------------------------------------------
(* The script as a whole: the mutation observer, the buttons, the intervals *)

\* runOn with keys in the case MainApp.urls uses
upperRunOn == [home |-> TRUE, social |-> TRUE, profile |-> FALSE,
               HOME |-> TRUE, SOCIAL |-> FALSE, PROFILE |-> FALSE]

SpecConfigs ==
    { Config(FALSE, FALSE, FALSE, u, FALSE, <<>>, t, FALSE, r, l, ro) :
        u \in BOOLEAN, t \in {1, 2}, r \in BOOLEAN,
        l \in { <<>>, <<Arr(<<"images", "uncommented">>)>> },
        ro \in { shippedRunOn, upperRunOn } }

SpecEntries ==
    { Entry(r, TRUE, i, FALSE, FALSE, "activity-text", <<"a">>) : r \in BOOLEAN, i \in BOOLEAN }

Init ==
    /\ config \in SpecConfigs
    /\ Constructed

\* the MutationObserver callback is entered with a batch of k added nodes
ObserveMutations ==
    \E k \in 0..MaxBatch :
        /\ pc = "idle"
        /\ intervals + MaxListeners <= MaxIntervals
        /\ IF isAllowedUrl(config, href)
           THEN /\ pc' = "observing"
                /\ pending' = k
                /\ lastOp' = "observeMutations"
           ELSE /\ lastOp' = "notAllowed"
                /\ UNCHANGED <<pc, pending>>
        /\ UNCHANGED <<config, href, currentLoadCount, userPressed, cancel, loadMore,
                       listeners, intervals, node, keptSinceClick, sinceCancel>>

\* handleAddedNode on a div.activity-entry; an error removeEntry raises ends the
\* observer callback: the rest of the batch and loadMoreOrReset are not run
HandleActivity ==
    \E n \in SpecEntries :
        /\ pc = "observing" /\ pending > 0
        /\ removeEntry(n)
        /\ IF shouldRemoveNodeThrows(config, n)
           THEN /\ pc' = "idle"
                /\ pending' = 0
                /\ lastOp' = "TypeError"
           ELSE /\ pc' = pc
                /\ pending' = pending - 1
                /\ lastOp' = "removeEntry"
        /\ noteKept
        /\ UNCHANGED <<config, href, userPressed, cancel, loadMore, listeners, intervals,
                       sinceCancel>>

\* handleAddedNode on a div.load-more
HandleButton ==
    \E sameNode \in BOOLEAN :
        /\ pc = "observing" /\ pending > 0
        /\ sameNode /\ loadMore = "button" => listeners < MaxListeners
        /\ setLoadMore(sameNode)
        /\ pending' = pending - 1
        /\ lastOp' = "setLoadMore"
        /\ UNCHANGED <<config, href, currentLoadCount, userPressed, cancel,
                       intervals, pc, node, keptSinceClick, sinceCancel>>

\* handleAddedNode on a node that is no HTMLElement or matches neither selector
HandleOther ==
    /\ pc = "observing" /\ pending > 0
    /\ pending' = pending - 1
    /\ lastOp' = "ignored"
    /\ UNCHANGED <<config, href, currentLoadCount, userPressed, cancel, loadMore,
                   listeners, intervals, pc, node, keptSinceClick, sinceCancel>>

\* the end of observeMutations
LoadMoreOrReset ==
    /\ pc = "observing" /\ pending = 0
    /\ loadMoreOrReset
    /\ pc' = "idle"
    /\ sinceCancel' = IF sinceCancel = "cancelled" THEN "handled" ELSE "none"
    /\ UNCHANGED <<config, href, loadMore, listeners, pending, node, keptSinceClick>>

\* the user clicks the Load More button the handler has put its listeners on
UserClickLoadMore ==
    /\ pc = "idle"
    /\ loadMore = "button"
    /\ intervals + listeners <= MaxIntervals
    /\ loadMoreClicked
    /\ lastOp' = "userClick"
    /\ keptSinceClick' = IF ~userPressed THEN 0 ELSE keptSinceClick
    /\ sinceCancel' = IF sinceCancel = "cancelled" THEN "clicked"
                      ELSE IF sinceCancel = "handled" THEN "none" ELSE sinceCancel
    /\ UNCHANGED <<config, href, currentLoadCount, loadMore, listeners, pc, pending, node>>

\* the onclick of the cancel button, which can be clicked while displayed
ClickCancel ==
    /\ pc = "idle"
    /\ cancel = "block"
    /\ userPressed' = FALSE
    /\ cancel' = "none"
    /\ lastOp' = "cancel"
    /\ keptSinceClick' = -1
    /\ sinceCancel' = "cancelled"
    /\ UNCHANGED <<config, href, currentLoadCount, loadMore, listeners, intervals,
                   pc, pending, node>>

\* mutant of IntervalTick: the interval never clears itself
IntervalTick_neverClears ==
    /\ pc = "idle"
    /\ intervals > 0
    /\ lastOp' = "scroll"
    /\ UNCHANGED <<config, href, currentLoadCount, userPressed, cancel, loadMore,
                   listeners, intervals, pc, pending, node, keptSinceClick, sinceCancel>>

\* one interval of simulateDomEvents fires
IntervalTick ==
    /\ pc = "idle"
    /\ intervals > 0
    /\ IF userPressed
       THEN /\ lastOp' = "scroll"
            /\ UNCHANGED intervals
       ELSE /\ lastOp' = "clearInterval"
            /\ intervals' = intervals - 1
    /\ UNCHANGED <<config, href, currentLoadCount, userPressed, cancel, loadMore,
                   listeners, pc, pending, node, keptSinceClick, sinceCancel>>

\* the single-page site moves to another page
Navigate ==
    \E h \in Hrefs \ {href} :
        /\ pc \in {"idle", "disabled"}
        /\ href' = h
        /\ lastOp' = "navigate"
        /\ UNCHANGED <<config, currentLoadCount, userPressed, cancel, loadMore,
                       listeners, intervals, pc, pending, node, keptSinceClick, sinceCancel>>

Next ==
    \/ ObserveMutations
    \/ HandleActivity
    \/ HandleButton
    \/ HandleOther
    \/ LoadMoreOrReset
    \/ UserClickLoadMore
    \/ ClickCancel
    \/ IntervalTick
    \/ Navigate

Spec == Init /\ [][Next]_vars

\* the event loop: an observer callback that was entered runs to its end, and a
\* live interval fires again and again between the callbacks
BatchStep == HandleActivity \/ HandleButton \/ HandleOther \/ LoadMoreOrReset

LiveConfigs ==
    { Config(FALSE, FALSE, FALSE, u, FALSE, <<>>, t, FALSE, FALSE, <<>>, upperRunOn) :
        u \in BOOLEAN, t \in {1, 2} }

LiveInit ==
    /\ config \in LiveConfigs
    /\ Constructed

LiveSpec == LiveInit /\ [][Next]_vars /\ WF_vars(BatchStep) /\ SF_vars(IntervalTick)

-----------------------------------------------------------------------------
(* The script from the call of main(), under valid and invalid configs *)

MainConfigs ==
    { Config(FALSE, FALSE, FALSE, u, FALSE, cs, t, FALSE, FALSE, l, upperRunOn) :
        u \in BOOLEAN, cs \in { <<>>, <<Arr(<<Number(<<>>)>>)>> }, t \in {0, 1, 2},
        l \in { <<>>, <<Arr(<<"images", "uncommented">>)>>, <<Bare("image")>> } }

\* main() not called yet: no handler, no observer
MainInit ==
    /\ config \in MainConfigs
    /\ pc = "start"
    /\ currentLoadCount = 0
    /\ userPressed = TRUE
    /\ cancel = "null"
    /\ loadMore = "null"
    /\ listeners = 0
    /\ intervals = 0
    /\ pending = 0
    /\ node = NoNode
    /\ lastOp = "init"
    /\ keptSinceClick = -1
    /\ sinceCancel = "none"
    /\ href = "https://anilist.co/home"

\* mutant of Main: the error validate() throws is not acted on
Main_ignoresErrors ==
    /\ pc = "start"
    /\ pc' = "idle"
    /\ lastOp' = "main"
    /\ UNCHANGED <<config, href, currentLoadCount, userPressed, cancel, loadMore,
                   listeners, intervals, pending, node, keptSinceClick, sinceCancel>>

\* main(): validate the config and return on its error, else construct the
\* handlers and MainApp and start the observer
Main ==
    /\ pc = "start"
    /\ IF validate(config)
       THEN /\ pc' = "idle"
            /\ lastOp' = "main"
       ELSE /\ pc' = "disabled"
            /\ lastOp' = "configError"
    /\ UNCHANGED <<config, href, currentLoadCount, userPressed, cancel, loadMore,
                   listeners, intervals, pending, node, keptSinceClick, sinceCancel>>

MainNext == Main \/ Next

MainSpec == MainInit /\ [][MainNext]_vars

-----------------------------------------------------------------------------
(* hideUnwantedActivity.user.js (v1.7b): ActivityHandler, removeEntry called *)
(* once on the handler as constructed                                        *)

v17_Config(uncommented, unliked, images, videos, customStrings, caseSensitive, linkedConditions) ==
    [targetLoadCount |-> 2,
     remove |-> [uncommented |-> uncommented, unliked |-> unliked, images |-> images,
                 videos |-> videos, customStrings |-> customStrings,
                 caseSensitive |-> caseSensitive],
     runOn |-> shippedRunOn,
     linkedConditions |-> linkedConditions]

\* the config as shipped
v17_config == v17_Config(TRUE, FALSE, FALSE, FALSE, <<>>, FALSE, <<<<>>>>)

\* !this.hasElement(SELECTORS.span.count, node.querySelector(SELECTORS.div.replies))
v17_shouldRemoveUncommented(n) == JsBool(~n.hasReplyCount)

v17_shouldRemoveUnliked(n) == JsBool(~n.hasLikeCount)

\* hasElement: node?.querySelector('img'), an element or null
v17_shouldRemoveImage(n) == IF n.hasImg THEN "element" ELSE "null"

v17_shouldRemoveVideo(n) == IF n.hasVideo THEN "element" ELSE "null"

v17_shouldRemoveByCustomStrings(cfg, n) ==
    JsBool(\E i \in DOMAIN cfg.remove.customStrings :
              IF cfg.remove.caseSensitive
              THEN StrIncludes(n.textContent, cfg.remove.customStrings[i])
              ELSE StrIncludes(toLowerCase(n.textContent),
                               toLowerCase(cfg.remove.customStrings[i])))

\* the names of the const conditions of shouldRemoveNode, in order
v17_conditions ==
    <<"remove.uncommented", "remove.unliked", "remove.images", "remove.videos",
      "remove.customStrings">>

\* condition.predicate(node)
v17_predicate(cfg, name, n) ==
    CASE name = "remove.uncommented" -> v17_shouldRemoveUncommented(n)
      [] name = "remove.unliked" -> v17_shouldRemoveUnliked(n)
      [] name = "remove.images" -> v17_shouldRemoveImage(n)
      [] name = "remove.videos" -> v17_shouldRemoveVideo(n)
      [] name = "remove.customStrings" -> v17_shouldRemoveByCustomStrings(cfg, n)

\* answers.includes(true), an answer being !result.includes(false) for the
\* results of the predicates a link names; the result of no predicate is []
v17_shouldRemoveByLinkedConditions(cfg, n) ==
    LET answers ==
            [i \in DOMAIN cfg.linkedConditions |->
                LET link == cfg.linkedConditions[i]
                    named == SelectSeq(v17_conditions, LAMBDA name : ArrIncludes(link, name))
                    result == [k \in DOMAIN named |-> v17_predicate(cfg, named[k], n)]
                IN  JsBool(~ArrIncludes(result, "false"))]
    IN  ArrIncludes(answers, "true")

\* config[conditionName] && predicate(node) && !linkedConditions.some(...): the
\* property named conditionName is read from config itself, where a key that is
\* missing gives undefined
v17_checkCondition(cfg, n, conditionName) ==
    /\ conditionName \in DOMAIN cfg
    /\ Truthy(v17_predicate(cfg, conditionName, n))
    /\ ~\E i \in DOMAIN cfg.linkedConditions : ArrIncludes(cfg.linkedConditions[i], conditionName)

v17_shouldRemoveNode(cfg, n) ==
    \/ v17_shouldRemoveByLinkedConditions(cfg, n)
    \/ \E i \in DOMAIN v17_conditions : v17_checkCondition(cfg, n, v17_conditions[i])

v17_removeEntry(n) ==
    /\ node' = [entry |-> n, attached |-> ~v17_shouldRemoveNode(config, n)]
    /\ currentLoadCount' = IF v17_shouldRemoveNode(config, n)
                           THEN currentLoadCount
                           ELSE currentLoadCount + 1

v17_Configs ==
    { v17_Config(u, k, i, v, cs, FALSE, l) :
        u \in BOOLEAN, k \in BOOLEAN, i \in BOOLEAN, v \in BOOLEAN,
        cs \in { <<>>, <<<<"a">>>> },
        l \in { <<<<>>>>, <<>>, <<<<"remove.uncommented", "remove.images">>>>,
                <<<<"remove.unliked">>, <<>>>> } }

v17_Init ==
    /\ config \in v17_Configs
    /\ Constructed

v17_RemoveEntry ==
    \E n \in StructEntries :
        /\ lastOp = "init"
        /\ v17_removeEntry(n)
        /\ lastOp' = "removeEntry"
        /\ UNCHANGED <<config, href, userPressed, cancel, loadMore, listeners,
                       intervals, pc, pending, keptSinceClick, sinceCancel>>

v17_Next == v17_RemoveEntry

v17_Spec == v17_Init /\ [][v17_Next]_vars

-----------------------------------------------------------------------------
(* The specification's vocabulary, stated on the entry and the config alone *)

ConditionNames == {"uncommented", "unliked", "text", "images", "videos", "containsStrings"}

StructuralNames == ConditionNames \ {"containsStrings"}

\* two characters that are equal once case is folded
SameFold(c, d) == c = d \/ {c, d} = {"a", "A"} \/ {c, d} = {"b", "B"}

\* text contains s, compared exactly or case-folded
Contains(text, s, caseSensitive) ==
    \E i \in 0..(Len(text) - Len(s)) :
        \A k \in 1..Len(s) :
            IF caseSensitive THEN text[i + k] = s[k] ELSE SameFold(text[i + k], s[k])

\* StringMatcher.matches(text, termGroups, caseSensitive)
Matches(text, termGroups, caseSensitive) ==
    /\ \E i \in DOMAIN termGroups : termGroups[i].items # <<>>
    /\ \E i \in DOMAIN termGroups :
          \A k \in DOMAIN termGroups[i].items :
              Contains(text, termGroups[i].items[k], caseSensitive)

\* atomic(name, entry) of the condition catalog
Atomic(cfg, name, e) ==
    CASE name = "uncommented" -> ~e.hasReplyCount
      [] name = "unliked" -> ~e.hasLikeCount
      [] name = "images" -> e.hasImg
      [] name = "videos" -> e.hasVideo \/ e.hasYoutube
      [] name = "text" -> /\ e.class \in {"activity-text", "activity-message"}
                          /\ ~e.hasImg
                          /\ ~(e.hasVideo \/ e.hasYoutube)
      [] name = "containsStrings" ->
            Matches(e.textContent, cfg.remove.containsStrings, cfg.options.caseSensitive)

\* effective(name, entry): the atomic value, inverted under reversal
Effective(cfg, name, e) ==
    IF cfg.options.reverseConditions THEN ~Atomic(cfg, name, e) ELSE Atomic(cfg, name, e)

\* a condition is enabled when its remove entry is true or a non-empty sequence
Enabled(cfg, name) ==
    IF name = "containsStrings"
    THEN cfg.remove.containsStrings # <<>>
    ELSE cfg.remove[name]

\* the names that appear in some linked group
LinkedNames(cfg) ==
    UNION { { cfg.options.linkedConditions[i].items[k] :
                k \in DOMAIN cfg.options.linkedConditions[i].items } :
            i \in DOMAIN cfg.options.linkedConditions }

UnskippedEnabled(cfg) == { name \in ConditionNames \ LinkedNames(cfg) : Enabled(cfg, name) }

\* the groups of a linkedConditions list: one group for a list of names only,
\* else one group per element
GroupsOf(lc) ==
    IF \A i \in DOMAIN lc : ~lc[i].isArray
    THEN { UNION { { lc[i].items[k] : k \in DOMAIN lc[i].items } : i \in DOMAIN lc } }
    ELSE { { lc[i].items[k] : k \in DOMAIN lc[i].items } : i \in DOMAIN lc }

CheckGroup(cfg, g, e) ==
    IF cfg.options.reverseConditions
    THEN \E name \in g : Effective(cfg, name, e)
    ELSE \A name \in g : Effective(cfg, name, e)

\* the tri-state linked result: "NONE", "TRUE" or "FALSE"
LinkedResult(cfg, e) ==
    LET groups == GroupsOf(cfg.options.linkedConditions)
    IN  IF LinkedNames(cfg) = {}
        THEN "NONE"
        ELSE IF /\ \E g \in groups : CheckGroup(cfg, g, e)
                /\ cfg.options.reverseConditions => \A g \in groups : CheckGroup(cfg, g, e)
             THEN "TRUE"
             ELSE "FALSE"

\* the linked result of the code, by name
CodeLinkedResult(cfg, e) ==
    LET r == shouldRemoveByLinkedConditions(cfg, e)
    IN  IF r = LINKED_NONE THEN "NONE" ELSE IF r = LINKED_TRUE THEN "TRUE" ELSE "FALSE"

\* removeEntry has handled node.entry and discarded it
Evaluated == lastOp = "removeEntry"
Discarded == ~node.attached

\* remove.containsStrings holds no term while the evaluator uses the condition
StringsUsedWithoutTerms(cfg) ==
    /\ Flat(cfg.remove.containsStrings) = <<>>
    /\ \/ "containsStrings" \in LinkedNames(cfg)
       \/ cfg.remove.containsStrings # <<>>

-----------------------------------------------------------------------------
(* C1..C10 *)

\* C1: with reverseConditions=false, removeEntry discards the entry iff the linked
\* result is TRUE or some condition that is enabled in remove and named in no
\* linked group has its atomic predicate hold for the entry.
C1_NonReversedDecision ==
    (Evaluated /\ ~config.options.reverseConditions) =>
        (Discarded <=>
            \/ LinkedResult(config, node.entry) = "TRUE"
            \/ \E name \in UnskippedEnabled(config) : Atomic(config, name, node.entry))

\* an entry discarded by an independent condition alone, next to a linked group that fails
C1_Witness ==
    /\ Evaluated /\ ~config.options.reverseConditions /\ Discarded
    /\ LinkedResult(config, node.entry) = "FALSE"
    /\ \E name \in UnskippedEnabled(config) : Atomic(config, name, node.entry)

\* C2: with reverseConditions=true, removeEntry discards the entry iff the linked
\* result is not FALSE, no enabled unlinked condition has effective value false, and
\* the linked result is TRUE or some enabled unlinked condition has effective value true.
C2_ReversedDecision ==
    (Evaluated /\ config.options.reverseConditions) =>
        (Discarded <=>
            /\ LinkedResult(config, node.entry) # "FALSE"
            /\ \A name \in UnskippedEnabled(config) : Effective(config, name, node.entry)
            /\ \/ LinkedResult(config, node.entry) = "TRUE"
               \/ \E name \in UnskippedEnabled(config) : Effective(config, name, node.entry))

\* C2 where the evaluator does not use containsStrings without terms
C2_ReversedDecisionWithTerms ==
    (Evaluated /\ config.options.reverseConditions /\ ~StringsUsedWithoutTerms(config)) =>
        (Discarded <=>
            /\ LinkedResult(config, node.entry) # "FALSE"
            /\ \A name \in UnskippedEnabled(config) : Effective(config, name, node.entry)
            /\ \/ LinkedResult(config, node.entry) = "TRUE"
               \/ \E name \in UnskippedEnabled(config) : Effective(config, name, node.entry))

\* the configuration with reverseConditions flipped
Reversed(cfg) == [cfg EXCEPT !.options.reverseConditions = ~@]

\* C3: for a config that enables an independent condition or links a condition,
\* the decision with reverseConditions=true is the negation of the decision with
\* reverseConditions=false, all else equal.
C3_ReversalIsComplement ==
    (Evaluated /\ (UnskippedEnabled(config) # {} \/ LinkedNames(config) # {})) =>
        (Discarded <=> ~shouldRemoveNode(Reversed(config), node.entry))

\* C3 where the evaluator does not use containsStrings without terms
C3_ReversalIsComplementWithTerms ==
    (/\ Evaluated
     /\ UnskippedEnabled(config) # {} \/ LinkedNames(config) # {}
     /\ ~StringsUsedWithoutTerms(config)) =>
        (Discarded <=> ~shouldRemoveNode(Reversed(config), node.entry))

\* C4: the linked result of shouldRemoveByLinkedConditions is NONE exactly when no
\* name is linked; else TRUE if some group's check is true and, under reversal, no
\* group's check is false; else FALSE. A group's check is "all conditions hold" when
\* not reversed and "some inverted condition holds" when reversed.
C4_LinkedResultTriState ==
    Evaluated => CodeLinkedResult(config, node.entry) = LinkedResult(config, node.entry)

\* C4 where the evaluator does not use containsStrings without terms
C4_LinkedResultTriStateWithTerms ==
    (Evaluated /\ ~StringsUsedWithoutTerms(config)) =>
        CodeLinkedResult(config, node.entry) = LinkedResult(config, node.entry)

\* the conditions the evaluator reads for this config in both modes
UsedNames(cfg) == LinkedNames(cfg) \cup { name \in ConditionNames : Enabled(cfg, name) }

\* C5: for each of the six condition names, the value the evaluator uses under
\* reverseConditions=true is the negation of the value it uses under
\* reverseConditions=false.
C5_ReversalInvertsAtomics ==
    Evaluated =>
        \A name \in UsedNames(config) :
            Truthy(CONDITIONS_MAP(config, name, node.entry, TRUE))
                <=> ~Truthy(CONDITIONS_MAP(config, name, node.entry, FALSE))

\* C5 for the structural names, and for containsStrings when it holds a term
C5_ReversalInvertsAtomicsWithTerms ==
    Evaluated =>
        \A name \in ConditionNames :
            (name = "containsStrings" => Flat(config.remove.containsStrings) # <<>>) =>
                (Truthy(CONDITIONS_MAP(config, name, node.entry, TRUE))
                    <=> ~Truthy(CONDITIONS_MAP(config, name, node.entry, FALSE)))

\* the configuration with remove[name] flipped
Toggled(cfg, name) == [cfg EXCEPT !.remove[name] = ~@]

\* C6: for a structural condition named in some linked group, the decision of
\* removeEntry is the same whether its remove flag is true or false, in both modes.
C6_LinkOverridesEnablement ==
    Evaluated =>
        \A name \in StructuralNames \cap LinkedNames(config) :
            Discarded <=> shouldRemoveNode(Toggled(config, name), node.entry)

\* a linked condition that is enabled and holds for an entry that is kept, because
\* its group fails: evaluated independently it would have discarded the entry
C6_Witness ==
    /\ Evaluated /\ ~config.options.reverseConditions /\ ~Discarded
    /\ \E name \in StructuralNames \cap LinkedNames(config) :
          config.remove[name] /\ Atomic(config, name, node.entry)

\* linkedConditions is one group of two names, written flat or as a group
SingleGroupOfTwo(lc) ==
    \/ Len(lc) = 1 /\ lc[1].isArray /\ Len(lc[1].items) = 2
    \/ Len(lc) = 2 /\ ~lc[1].isArray /\ ~lc[2].isArray

NoRemoveFlag(cfg) ==
    /\ \A name \in StructuralNames : ~cfg.remove[name]
    /\ cfg.remove.containsStrings = <<>>

\* C7: with reverseConditions=false, one linked group {A, B} and every remove flag
\* false, an entry is discarded iff atomic A and atomic B both hold for it.
C7_LinkedGroupIsAnd ==
    (/\ Evaluated /\ ~config.options.reverseConditions
     /\ NoRemoveFlag(config)
     /\ SingleGroupOfTwo(config.options.linkedConditions)) =>
        (Discarded <=> \A name \in LinkedNames(config) : Atomic(config, name, node.entry))

\* the group {images, videos} and an entry with an image and no video: kept
C7_Witness ==
    /\ Evaluated /\ ~config.options.reverseConditions /\ NoRemoveFlag(config)
    /\ SingleGroupOfTwo(config.options.linkedConditions)
    /\ LinkedNames(config) = {"images", "videos"}
    /\ Atomic(config, "images", node.entry) /\ ~Atomic(config, "videos", node.entry)
    /\ ~Discarded

\* a list of names only, written as the one group that holds them all
AsOneGroup(lc) == <<Arr(Flat(lc))>>

\* a list with every bare name written as a group of its own
AsGroups(lc) == [i \in DOMAIN lc |-> Arr(lc[i].items)]

WithLinked(cfg, lc) == [cfg EXCEPT !.options.linkedConditions = lc]

OnlyNames(lc) == lc # <<>> /\ \A i \in DOMAIN lc : ~lc[i].isArray

\* C8: a linkedConditions list of names only decides as the one group of all of
\* them; in a list that holds a group, each bare name decides as a group of its own.
C8_LinkedNormalization ==
    Evaluated =>
        LET lc == config.options.linkedConditions
        IN  /\ OnlyNames(lc) =>
                (Discarded <=> shouldRemoveNode(WithLinked(config, AsOneGroup(lc)), node.entry))
            /\ (\E i \in DOMAIN lc : lc[i].isArray) =>
                (Discarded <=> shouldRemoveNode(WithLinked(config, AsGroups(lc)), node.entry))

\* the flat list [images, videos] and an entry with an image and no video: kept, as
\* under [[images, videos]], where [[images], [videos]] would discard it
C8_Witness ==
    /\ Evaluated /\ ~config.options.reverseConditions /\ NoRemoveFlag(config)
    /\ config.options.linkedConditions = <<Bare("images"), Bare("videos")>>
    /\ node.entry.hasImg /\ ~node.entry.hasVideo /\ ~node.entry.hasYoutube
    /\ ~Discarded
    /\ shouldRemoveNode(WithLinked(config, AsGroups(config.options.linkedConditions)),
                        node.entry)

\* only remove.containsStrings can discard: no flag, no link, no reversal
OnlyStrings(cfg) ==
    /\ \A name \in StructuralNames : ~cfg.remove[name]
    /\ cfg.options.linkedConditions = <<>>
    /\ ~cfg.options.reverseConditions

\* C9: the non-reversed result of shouldRemoveStrings is false when the sequence
\* holds no term, else the OR over groups, a string group matching iff the text
\* contains it and a list group iff the text contains each of its strings, compared
\* case-folded unless caseSensitive.
C9_StringMatcher ==
    Evaluated =>
        /\ Truthy(shouldRemoveStrings(config, node.entry, FALSE))
              <=> Matches(node.entry.textContent, config.remove.containsStrings,
                          config.options.caseSensitive)
        /\ OnlyStrings(config) =>
              (Discarded <=> Matches(node.entry.textContent, config.remove.containsStrings,
                                     config.options.caseSensitive))

\* a list group matched only through case folding discards the entry
C9_Witness ==
    /\ Evaluated /\ OnlyStrings(config) /\ Discarded
    /\ ~config.options.caseSensitive
    /\ config.remove.containsStrings = <<Arr(<<<<"a">>, <<"B">>>>)>>
    /\ node.entry.textContent = <<"A", "b">>

\* C10: a call of removeEntry either removes the entry and leaves currentLoadCount
\* unchanged (decision discard), or keeps the entry and adds exactly 1 to
\* currentLoadCount.
C10_CounterSideEffect ==
    [][lastOp' = "removeEntry" =>
        /\ IF shouldRemoveNode(config, node'.entry)
           THEN ~node'.attached /\ currentLoadCount' = currentLoadCount
           ELSE node'.attached /\ currentLoadCount' = currentLoadCount + 1
        /\ UNCHANGED <<config, userPressed, cancel, loadMore, listeners, intervals>>]_vars

\* a second entry kept in one batch: the counter went from 1 to 2
C10_Witness ==
    /\ lastOp = "removeEntry" /\ node.attached /\ currentLoadCount = 2

\* C11: currentLoadCount is the number of entries kept since the last resetState
\* (or since construction): it is never negative, a call of removeEntry adds 1
\* exactly when the entry stays attached, the only step that sets it back to 0 is
\* the resetState that MainApp.loadMoreOrReset invokes at the end of a batch, and
\* no other step changes it.
C11_CounterTracksKept ==
    /\ [](currentLoadCount >= 0)
    /\ [][/\ lastOp' = "removeEntry" =>
                currentLoadCount' = currentLoadCount + (IF node'.attached THEN 1 ELSE 0)
          /\ lastOp' = "resetState" =>
                pc = "observing" /\ pending = 0 /\ currentLoadCount' = 0
          /\ lastOp' \notin {"removeEntry", "resetState"} =>
                currentLoadCount' = currentLoadCount]_vars

\* a batch that kept an entry ended in resetState, which put the counter at 0
C11_Witness ==
    /\ lastOp = "resetState" /\ node.attached /\ currentLoadCount = 0

C13_RemoveEntryNeverRaises ==
    validate(config) => lastOp # "TypeError"

\* C14: when ConfigValidator.validate finds at least one error, main() returns
\* before it constructs ActivityHandler, UIHandler or MainApp and before it starts
\* the observer: no callback ever runs, no entry is evaluated, removed or counted,
\* and no button, listener or interval is ever set up.
C14_InvalidConfigDisables ==
    validateErrors(config) # {} =>
        /\ pc \in {"start", "disabled"}
        /\ lastOp \in {"init", "configError", "navigate"}
        /\ node = NoNode /\ currentLoadCount = 0 /\ pending = 0
        /\ cancel = "null" /\ loadMore = "null" /\ listeners = 0 /\ intervals = 0

\* main() has returned on a config with two errors and the user has moved on to
\* another page
C14_Witness ==
    /\ validateErrors(config) = {"options.targetLoadCount", "options.linkedConditions"}
    /\ pc = "disabled" /\ lastOp = "navigate" /\ href # "https://anilist.co/home"

\* C15: with every remove flag false, containsStrings empty, linkedConditions
\* empty and reverseConditions false, removeEntry discards no entry: every entry
\* is kept and counted.
C15_NothingEnabledKeepsAll ==
    (/\ Evaluated /\ NoRemoveFlag(config)
     /\ config.options.linkedConditions = <<>>
     /\ ~config.options.reverseConditions) =>
        /\ ~Discarded
        /\ currentLoadCount = 1

\* an entry without comments, likes or media, of a text activity, kept and counted
C15_Witness ==
    /\ Evaluated /\ NoRemoveFlag(config)
    /\ config.options.linkedConditions = <<>> /\ ~config.options.reverseConditions
    /\ ~node.entry.hasReplyCount /\ ~node.entry.hasLikeCount
    /\ node.entry.class = "activity-text"
    /\ node.attached /\ currentLoadCount = 1

OnlyEnabled(cfg, name) == \A other \in ConditionNames : Enabled(cfg, other) <=> other = name

\* C16: with remove.uncommented the only enabled condition and no name linked,
\* reverseConditions=false discards exactly the entries without comments and
\* reverseConditions=true exactly the entries with comments.
C16_UncommentedAlone ==
    (Evaluated /\ OnlyEnabled(config, "uncommented") /\ LinkedNames(config) = {}) =>
        IF config.options.reverseConditions
        THEN Discarded <=> node.entry.hasReplyCount
        ELSE Discarded <=> ~node.entry.hasReplyCount

\* reversed: an entry with comments, and with an image that plays no part, is
\* discarded
C16_Witness ==
    /\ Evaluated /\ OnlyEnabled(config, "uncommented") /\ LinkedNames(config) = {}
    /\ config.options.reverseConditions
    /\ node.entry.hasReplyCount /\ node.entry.hasImg /\ Discarded

\* C17: when no condition name appears in linkedConditions (the list is empty or
\* holds only empty groups), the linked result is NONE and the decision is the
\* one the independent conditions give alone, that is, the decision under the
\* same config with linkedConditions = [], in both modes.
C17_NoLinkedNameIsNone ==
    (Evaluated /\ LinkedNames(config) = {}) =>
        /\ CodeLinkedResult(config, node.entry) = "NONE"
        /\ Discarded <=> shouldRemoveNode(WithLinked(config, <<>>), node.entry)
        /\ ~config.options.reverseConditions =>
              (Discarded <=> \E name \in ConditionNames :
                                Enabled(config, name) /\ Atomic(config, name, node.entry))

\* linkedConditions = [[]] in reversed mode: an entry discarded by the enabled
\* conditions alone
C17_Witness ==
    /\ Evaluated /\ config.options.linkedConditions = <<Arr(<<>>)>>
    /\ config.options.reverseConditions
    /\ config.remove.images /\ config.remove.unliked
    /\ Discarded

\* C18: the atomic Text holds iff the entry is a text activity or a message
\* activity and neither the atomic Image nor the atomic Video holds; Text is never
\* true together with Image or Video; with remove.text the only enabled condition
\* the entries discarded are exactly those.
C18_TextIsMediaFree ==
    Evaluated =>
        LET e == node.entry
            image == Truthy(shouldRemoveImage(e))
            video == Truthy(shouldRemoveVideo(e))
            text == Truthy(shouldRemoveText(e))
        IN  /\ image <=> e.hasImg
            /\ video <=> (e.hasVideo \/ e.hasYoutube)
            /\ text <=> (/\ e.class \in {"activity-text", "activity-message"}
                         /\ ~image /\ ~video)
            /\ ~(text /\ (image \/ video))
            /\ (/\ OnlyEnabled(config, "text") /\ LinkedNames(config) = {}
                /\ ~config.options.reverseConditions) => (Discarded <=> text)

\* a message activity with an embedded YouTube player is not text: it is kept
C18_Witness ==
    /\ Evaluated /\ OnlyEnabled(config, "text") /\ LinkedNames(config) = {}
    /\ ~config.options.reverseConditions
    /\ node.entry.class = "activity-message" /\ node.entry.hasYoutube
    /\ ~node.entry.hasImg /\ ~node.entry.hasVideo
    /\ ~Discarded

\* C19: targetLoadCount is a minimum per load-more cycle: a cycle that a user
\* click began and that was not cancelled is not ended by resetState before at
\* least targetLoadCount entries have been kept since that click.
C19_TargetIsMinimumPerCycle ==
    (lastOp = "resetState" /\ keptSinceClick >= 0) =>
        keptSinceClick >= config.options.targetLoadCount

\* C20: in hideUnwantedActivity.user.js (v1.7b) under the shipped config
\* (remove.uncommented = true, the other flags false, customStrings empty,
\* linkedConditions = [[]]), removeEntry removes an activity iff it has no
\* comments; an activity with comments is kept and counted.
C20_ShippedV17RemovesUncommented ==
    (Evaluated /\ config = v17_config) =>
        /\ Discarded <=> ~node.entry.hasReplyCount
        /\ node.entry.hasReplyCount => (node.attached /\ currentLoadCount = 1)

\* the removal conditions of v1.7b that are flags, and what an activity that
\* matches one looks like
v17_FlagNames == {"uncommented", "unliked", "images", "videos"}

v17_MatchesFlag(name, e) ==
    CASE name = "uncommented" -> ~e.hasReplyCount
      [] name = "unliked" -> ~e.hasLikeCount
      [] name = "images" -> e.hasImg
      [] name = "videos" -> e.hasVideo

v17_Linked(cfg, name) ==
    \E i \in DOMAIN cfg.linkedConditions :
        \E k \in DOMAIN cfg.linkedConditions[i] :
            cfg.linkedConditions[i][k] \in {name, "remove." \o name}

\* C21: in hideUnwantedActivity.user.js (v1.7b), for every removal condition X
\* among uncommented, unliked, images and videos that is enabled in config.remove
\* and listed in no linked group, every activity that matches X is removed.
C21_V17EnabledUnlinkedRemoves ==
    Evaluated =>
        \A name \in v17_FlagNames :
            (/\ config.remove[name]
             /\ ~v17_Linked(config, name)
             /\ v17_MatchesFlag(name, node.entry)) => Discarded

C23_EmptyGroupForcesNothing ==
    (Evaluated /\ ~config.options.reverseConditions) =>
        LET witnessed == \E g \in GroupsOf(config.options.linkedConditions) :
                            /\ g # {}
                            /\ \A name \in g : Atomic(config, name, node.entry)
        IN  /\ CodeLinkedResult(config, node.entry) = "TRUE" => witnessed
            /\ (NoRemoveFlag(config) /\ Discarded) => witnessed

\* C24: at any time at most one scroll-simulation interval started by
\* simulateDomEvents is active, whatever the sequence of user clicks on Load More,
\* automatic clicks, cancel clicks and mutation batches.
C24_AtMostOneInterval ==
    intervals <= 1

\* C25: every scroll-simulation interval is eventually cleared: a tick that finds
\* userPressed false clears its interval and dispatches no scroll event, and once
\* userPressed is false and stays false, eventually no interval is active.
C25_IntervalsEventuallyCleared ==
    /\ [][(lastOp' \in {"scroll", "clearInterval"} /\ ~userPressed) =>
            (lastOp' = "clearInterval" /\ intervals' = intervals - 1)]_vars
    /\ (<>[](~userPressed)) => <>[](intervals = 0)

\* the last of two intervals has cleared itself after a cancel
C25_Witness ==
    /\ lastOp = "clearInterval" /\ ~userPressed /\ intervals = 0 /\ cancel = "none"
    /\ currentLoadCount = 1

\* a step that ends a mutation batch handled on an allowed URL
BatchEnds == pc = "observing" /\ pc' = "idle" /\ lastOp' \in {"clickLoadMore", "resetState"}

\* C26: after the cancel button is clicked, no automatic Load More click is
\* issued until the user clicks Load More again, and the next mutation batch
\* handled on an allowed URL resets currentLoadCount to 0.
C26_AfterCancel ==
    [][/\ sinceCancel = "cancelled" => lastOp' # "clickLoadMore"
       /\ (sinceCancel \in {"cancelled", "clicked"} /\ BatchEnds) =>
              currentLoadCount' = 0]_vars

\* C26, amended: after the cancel button is clicked, userPressed is false until
\* the user clicks Load More again, and while it is false no automatic Load More
\* click is issued; the next mutation batch handled on an allowed URL resets
\* currentLoadCount to 0 if the user has not clicked Load More in between.
C26_AfterCancelUnlessClicked ==
    /\ [](sinceCancel = "cancelled" => ~userPressed)
    /\ [][/\ ~userPressed => lastOp' # "clickLoadMore"
          /\ (~userPressed /\ userPressed') => lastOp' = "userClick"
          /\ (sinceCancel = "cancelled" /\ BatchEnds) =>
                (lastOp' = "resetState" /\ currentLoadCount' = 0)]_vars

\* the first batch after a cancel kept an entry and ended in a reset, with the
\* counter at 0, no click having come between
C26_Witness ==
    /\ sinceCancel = "handled" /\ lastOp = "resetState" /\ pc = "idle"
    /\ node.attached /\ currentLoadCount = 0 /\ ~userPressed /\ loadMore = "button"

\* the feeds of runOn and the pages each one's URL pattern matches
Feeds == {"home", "social", "profile"}

FeedMatches(feed, url) ==
    CASE feed = "home" -> url = "https://anilist.co/home"
      [] feed = "profile" -> url \in {"https://anilist.co/user/x/",
                                      "https://anilist.co/user/x/social"}
      [] feed = "social" -> url \in {"https://anilist.co/user/x/social",
                                     "https://anilist.co/anime/1/y/social"}

MatchesEnabledFeed(cfg, url) ==
    \E feed \in Feeds : cfg.runOn[feed] /\ FeedMatches(feed, url)

\* C27: when the current URL matches no feed enabled in runOn, a call of
\* MainApp.observeMutations changes nothing: no entry is evaluated or removed,
\* currentLoadCount and userPressed are unchanged, no Load More click is issued
\* and no reset happens.
C27_DisallowedUrlChangesNothing ==
    [][(/\ pc = "idle"
        /\ lastOp' \in {"observeMutations", "notAllowed"}
        /\ ~MatchesEnabledFeed(config, href)) =>
            /\ lastOp' = "notAllowed"
            /\ UNCHANGED <<config, href, currentLoadCount, userPressed, cancel, loadMore,
                           listeners, intervals, pc, pending, node>>]_vars

\* a batch arrives on the search page, which no feed matches, in the middle of a
\* load-more cycle: the callback has left everything as it was
C27_Witness ==
    /\ lastOp = "notAllowed" /\ href = "https://anilist.co/search/anime"
    /\ ~MatchesEnabledFeed(config, href)
    /\ pc = "idle" /\ userPressed /\ loadMore = "button" /\ intervals > 0
    /\ currentLoadCount = 1

====
